---- MODULE Spec2Model ----
(***************************************************************************)
(* A model of the CHIP-8 interpreter: the machine record Chip8, its        *)
(* fetch/decode/execute cycle and the 60 Hz timer goroutine.               *)
(*                                                                         *)
(* The machine is the record c (the receiver of every method).  Sparse     *)
(* encodings keep the states small without changing what is stored:        *)
(*   c.memory   a function on the addresses that were ever written; every  *)
(*              other cell of the [4096]byte array holds Go's zero value;  *)
(*   c.display  the set of <<x, y>> whose cell of [64][32]bool is true.    *)
(* Integers keep their Go width: byte arithmetic is taken % 256, uint16    *)
(* arithmetic % 65536.  A Go panic (the explicit ones and the runtime's    *)
(* index check) is recorded in the variable panic; nothing recovers from   *)
(* it, so the process is over once it is set.                              *)
(***************************************************************************)
EXTENDS Integers, Sequences, FiniteSets, TLC

VARIABLES
    c,        \* the Chip8 struct
    panic,    \* "" or the message of the panic that ended the process
    err,      \* "" or the error LoadROM returned to main
    i,        \* main's loop counter: cycles completed
    tpc,      \* where the timer goroutine is inside its loop body
    tmp,      \* the value the goroutine loaded for the decrement in progress
    ticks,    \* ticks the ticker has delivered
    opcode,   \* history: the word the last Cycle fetched (NoOpcode: none)
    prev,     \* history: c before the last Cycle
    opcode2,  \* history: opcode one Cycle earlier
    prev2,    \* history: prev one Cycle earlier
    calls,    \* history: the PCs pushed by the calls not yet returned from
    ret,      \* history: the PC pushed by the call the last return matched
    t0,       \* history: DT and ST when the timers started counting
    rom,      \* history: the bytes of the ROM file given to LoadROM
    beep      \* the speaker: TRUE while the tone started by PlayBeep is playing

vars == <<c, panic, err, i, tpc, tmp, ticks, opcode, prev, opcode2, prev2, calls, ret, t0, rom, beep>>

----------------------------------------------------------------------------
(* Bounds of the exploration *)

\* register and immediate values: 0..MaxLow, 127, 128, 255-MaxLow..255
MaxLow == 1
\* iterations of main's loop that are explored (1000 in the source)
MaxCycles == 4
\* ticks the ticker delivers
MaxTicks == 4
\* instructions of a control-flow program
MaxFlowLen == 4
\* draw instructions of a draw program
MaxDraws == 3

----------------------------------------------------------------------------
(* Program constants *)

MemSize == 4096
ProgStart == 512
StackSize == 16
Width == 64
Height == 32
MainDT == 60
MainST == 30
NoOpcode == -1

fontset ==
    << 240, 144, 144, 144, 240,   32,  96,  32,  32, 112,
       240,  16, 240, 128, 240,  240,  16, 240,  16, 240,
       144, 144, 240,  16,  16,  240, 128, 240,  16, 240,
       240, 128, 240, 144, 240,  240,  16,  32,  64,  64,
       240, 144, 240, 144, 240,  240, 144, 240,  16, 240,
       240, 144, 240, 144, 144,  224, 144, 224, 144, 224,
       240, 128, 128, 128, 240,  224, 144, 144, 144, 224,
       240, 128, 240, 128, 240,  240, 128, 240, 128, 128 >>

----------------------------------------------------------------------------
(* Go's integer operators on unsigned values *)

RECURSIVE AndW(_, _)
AndW(a, b) ==
    IF a = 0 \/ b = 0 THEN 0
    ELSE (a % 2) * (b % 2) + 2 * AndW(a \div 2, b \div 2)

RECURSIVE OrW(_, _)
OrW(a, b) ==
    IF a = 0 THEN b
    ELSE IF b = 0 THEN a
    ELSE (IF a % 2 = 1 \/ b % 2 = 1 THEN 1 ELSE 0) + 2 * OrW(a \div 2, b \div 2)

RECURSIVE XorW(_, _)
XorW(a, b) ==
    IF a = 0 THEN b
    ELSE IF b = 0 THEN a
    ELSE ((a + b) % 2) + 2 * XorW(a \div 2, b \div 2)

Shr(a, k) == a \div (2 ^ k)

Byte(n) == n % 256

U16(n) == n % 65536

----------------------------------------------------------------------------
(* The machine *)

ZeroChip8 ==
    [ memory  |-> [a \in {} |-> 0],
      display |-> {},
      PC      |-> 0,
      I       |-> 0,
      stack   |-> [k \in 0..(StackSize - 1) |-> 0],
      SP      |-> 0,
      V       |-> [k \in 0..15 |-> 0],
      DT      |-> 0,
      ST      |-> 0,
      keys    |-> [k \in 0..15 |-> FALSE] ]

\* c.memory[a] for an address inside the array
Mem(m, a) == IF a \in DOMAIN m.memory THEN m.memory[a] ELSE 0

\* c.memory[a] = v for an address inside the array
MemSet(m, a, v) == [m EXCEPT !.memory = (a :> v) @@ m.memory]

Chip8Init(m) ==
    [m EXCEPT !.PC = ProgStart,
              !.memory = [a \in 0..(Len(fontset) - 1) |-> fontset[a + 1]] @@ m.memory]

\* faulty variant: a ROM that fills the program area exactly is refused
LoadROMRefusesFull(m, data) ==
    IF Len(data) >= MemSize - ProgStart
    THEN [c |-> m, err |-> "ROM too large"]
    ELSE [c |-> [m EXCEPT !.memory =
                    [a \in ProgStart..(ProgStart + Len(data) - 1) |-> data[a - ProgStart + 1]]
                    @@ m.memory],
          err |-> ""]

\* the outcome of LoadROM on the bytes read from the file
LoadROM(m, data) ==
    IF Len(data) > MemSize - ProgStart
    THEN [c |-> m, err |-> "ROM too large"]
    ELSE [c |-> [m EXCEPT !.memory =
                    [a \in ProgStart..(ProgStart + Len(data) - 1) |-> data[a - ProgStart + 1]]
                    @@ m.memory],
          err |-> ""]

Ok(m) == [c |-> m, panic |-> ""]

Panicked(m, msg) == [c |-> m, panic |-> msg]

----------------------------------------------------------------------------
(* Fetch *)

\* faulty variant: the guard looks at PC alone
PCOutOfBoundsOnlyPC(pc) == pc >= MemSize

\* the guard of Fetch: PC or PC+1 is outside the memory
PCOutOfBounds(pc) == pc + 1 >= MemSize

\* Go's index expression c.memory[a]: the runtime panics outside the array
InRange(a) == a >= 0 /\ a < MemSize

Fetch(m) ==
    IF PCOutOfBounds(m.PC)
    THEN [c |-> m, opcode |-> NoOpcode, panic |-> "PC out of bounds"]
    ELSE IF ~(InRange(m.PC) /\ InRange(U16(m.PC + 1)))
    THEN [c |-> m, opcode |-> NoOpcode, panic |-> "index out of range"]
    ELSE [c |-> [m EXCEPT !.PC = U16(m.PC + 2)],
          opcode |-> OrW(Mem(m, m.PC) * 256, Mem(m, U16(m.PC + 1))),
          panic |-> ""]

----------------------------------------------------------------------------
(* Operand extraction *)

OpX(op) == Shr(AndW(op, 3840), 8)

OpY(op) == Shr(AndW(op, 240), 4)

\* faulty variant: the low nibble taken for the register index
OpY5LowNibble(op) == AndW(op, 15)

\* the second operand as the 5XY0 case extracts it: (opcode & 0x00FF) >> 4
OpY5(op) == Shr(AndW(op, 255), 4)

OpN(op) == AndW(op, 15)

OpNN(op) == Byte(AndW(op, 255))

OpNNN(op) == AndW(op, 4095)

OpGroup(op) == AndW(op, 61440)

SetV(m, x, v) == [m EXCEPT !.V[x] = v]

----------------------------------------------------------------------------
(* Execute, one operator per case of the switch *)

ExecClear(m) == Ok([m EXCEPT !.display = {}])

\* faulty variant: the return address is read before SP is decremented
ExecReturnStaleSP(m) ==
    IF m.SP = 0
    THEN Panicked(m, "stack underflow")
    ELSE Ok([m EXCEPT !.SP = m.SP - 1, !.PC = m.stack[m.SP]])

ExecReturn(m) ==
    IF m.SP = 0
    THEN Panicked(m, "stack underflow")
    ELSE LET sp == m.SP - 1
         IN  Ok([m EXCEPT !.SP = sp, !.PC = m.stack[sp]])

ExecJump(m, op) == Ok([m EXCEPT !.PC = OpNNN(op)])

\* faulty variant: the guard lets a call through when SP is already 15
ExecCallLateGuard(m, op) ==
    IF m.SP + 1 > StackSize
    THEN Panicked(m, "stack overflow")
    ELSE Ok([m EXCEPT !.stack[m.SP] = m.PC, !.SP = m.SP + 1, !.PC = OpNNN(op)])

ExecCall(m, op) ==
    IF m.SP + 1 >= StackSize
    THEN Panicked(m, "stack overflow")
    ELSE Ok([m EXCEPT !.stack[m.SP] = m.PC, !.SP = m.SP + 1, !.PC = OpNNN(op)])

Skip(m) == [m EXCEPT !.PC = U16(m.PC + 2)]

ExecSkipEqImm(m, op) ==
    Ok(IF m.V[OpX(op)] = OpNN(op) THEN Skip(m) ELSE m)

ExecSkipNeImm(m, op) ==
    Ok(IF m.V[OpX(op)] # OpNN(op) THEN Skip(m) ELSE m)

ExecSkipEqReg(m, op) ==
    Ok(IF m.V[OpX(op)] = m.V[OpY5(op)] THEN Skip(m) ELSE m)

ExecSkipNeReg(m, op) ==
    Ok(IF m.V[OpX(op)] # m.V[OpY(op)] THEN Skip(m) ELSE m)

ExecSetImm(m, op) == Ok(SetV(m, OpX(op), OpNN(op)))

ExecAddImm(m, op) == Ok(SetV(m, OpX(op), Byte(m.V[OpX(op)] + OpNN(op))))

\* faulty variant: the flag is stored before the result
ExecAddFlagFirst(m, x, y) ==
    LET sum == U16(m.V[x] + m.V[y])
        m1  == SetV(m, 15, Byte(AndW(Shr(sum, 8), 1)))
    IN  Ok(SetV(m1, x, Byte(AndW(sum, 255))))

\* 8XY4: the sum is taken first, then V[x], then V[F]
ExecAdd(m, x, y) ==
    LET sum == U16(m.V[x] + m.V[y])
        m1  == SetV(m, x, Byte(AndW(sum, 255)))
    IN  Ok(SetV(m1, 15, Byte(AndW(Shr(sum, 8), 1))))

\* 8XY5: V[x] is overwritten before the comparison that sets V[F]
ExecSub(m, x, y) ==
    LET diff == U16(m.V[x] - m.V[y])
        m1   == SetV(m, x, Byte(AndW(diff, 255)))
        m2   == SetV(m1, 15, 0)
    IN  Ok(IF m2.V[x] > m2.V[y] THEN SetV(m2, 15, 1) ELSE m2)

ExecShr(m, x) ==
    LET m1 == SetV(m, 15, AndW(m.V[x], 1))
    IN  Ok(SetV(m1, x, Shr(m1.V[x], 1)))

\* 8XY7: as 8XY5 with the operands exchanged
ExecSubn(m, x, y) ==
    LET diff == U16(m.V[y] - m.V[x])
        m1   == SetV(m, x, Byte(AndW(diff, 255)))
        m2   == SetV(m1, 15, 0)
    IN  Ok(IF m2.V[y] > m2.V[x] THEN SetV(m2, 15, 1) ELSE m2)

ExecShl(m, x) ==
    LET m1 == SetV(m, 15, Shr(AndW(m.V[x], 128), 7))
    IN  Ok(SetV(m1, x, Byte(m1.V[x] * 2)))

ExecAlu(m, op) ==
    LET x == OpX(op)
        y == OpY(op)
        n == AndW(op, 15)
    IN  CASE n = 0  -> Ok(SetV(m, x, m.V[y]))
          [] n = 1  -> Ok(SetV(m, x, OrW(m.V[x], m.V[y])))
          [] n = 2  -> Ok(SetV(m, x, AndW(m.V[x], m.V[y])))
          [] n = 3  -> Ok(SetV(m, x, XorW(m.V[x], m.V[y])))
          [] n = 4  -> ExecAdd(m, x, y)
          [] n = 5  -> ExecSub(m, x, y)
          [] n = 6  -> ExecShr(m, x)
          [] n = 7  -> ExecSubn(m, x, y)
          [] n = 14 -> ExecShl(m, x)
          [] OTHER  -> Ok(m)

ExecSetIndex(m, op) == Ok([m EXCEPT !.I = OpNNN(op)])

ExecJumpOffset(m, op) == Ok([m EXCEPT !.PC = U16(OpNNN(op) + m.V[0])])

\* CXNN: randByte is time.Now().Nanosecond() % 256, any byte
ExecRandom(m, op, randByte) == Ok(SetV(m, OpX(op), AndW(randByte, OpNN(op))))

----------------------------------------------------------------------------
(* DXYN *)

\* faulty variant: the flag is overwritten by every set bit of the sprite
RECURSIVE DrawColsFlagPerBit(_, _, _, _, _)
DrawColsFlagPerBit(m, spriteByte, x, yPos, col) ==
    IF col = 8 THEN m
    ELSE IF AndW(spriteByte, Shr(128, col)) # 0
    THEN LET xPos    == Byte(x + col) % Width
             p       == <<xPos, yPos>>
             current == p \in m.display
             m1      == [m EXCEPT !.display = IF current # TRUE
                                              THEN m.display \cup {p}
                                              ELSE m.display \ {p}]
             m2      == SetV(m1, 15, IF current THEN 1 ELSE 0)
         IN  DrawColsFlagPerBit(m2, spriteByte, x, yPos, col + 1)
    ELSE DrawColsFlagPerBit(m, spriteByte, x, yPos, col + 1)

\* faulty variant: the sprite is plotted with OR, a set pixel stays set
RECURSIVE DrawColsOrPlot(_, _, _, _, _)
DrawColsOrPlot(m, spriteByte, x, yPos, col) ==
    IF col = 8 THEN m
    ELSE IF AndW(spriteByte, Shr(128, col)) # 0
    THEN LET xPos    == Byte(x + col) % Width
             p       == <<xPos, yPos>>
             current == p \in m.display
             m1      == [m EXCEPT !.display = m.display \cup {p}]
             m2      == IF current THEN SetV(m1, 15, 1) ELSE m1
         IN  DrawColsOrPlot(m2, spriteByte, x, yPos, col + 1)
    ELSE DrawColsOrPlot(m, spriteByte, x, yPos, col + 1)

\* the inner loop over the 8 columns of one sprite row
RECURSIVE DrawCols(_, _, _, _, _)
DrawCols(m, spriteByte, x, yPos, col) ==
    IF col = 8 THEN m
    ELSE IF AndW(spriteByte, Shr(128, col)) # 0
    THEN LET xPos    == Byte(x + col) % Width
             p       == <<xPos, yPos>>
             current == p \in m.display
             m1      == [m EXCEPT !.display = IF current # TRUE
                                              THEN m.display \cup {p}
                                              ELSE m.display \ {p}]
             m2      == IF current /\ p \notin m1.display THEN SetV(m1, 15, 1) ELSE m1
         IN  DrawCols(m2, spriteByte, x, yPos, col + 1)
    ELSE DrawCols(m, spriteByte, x, yPos, col + 1)

\* the outer loop over the rows; the sprite read is an index expression
RECURSIVE DrawRows(_, _, _, _, _)
DrawRows(m, x, y, height, row) ==
    IF ~(row < height) THEN Ok(m)
    ELSE LET a == U16(m.I + row)
         IN  IF ~InRange(a) THEN Panicked(m, "index out of range")
             ELSE DrawRows(DrawCols(m, Mem(m, a), x, Byte(y + Byte(row)) % Height, 0),
                           x, y, height, row + 1)

ExecDraw(m, op) ==
    LET x      == m.V[OpX(op)]
        y      == m.V[OpY(op)]
        height == AndW(op, 15)
    IN  DrawRows(SetV(m, 15, 0), x, y, height, 0)

----------------------------------------------------------------------------
(* FXnn *)

ExecGetDelay(m, x) == Ok(SetV(m, x, m.DT))

ExecSetDelay(m, x) == Ok([m EXCEPT !.DT = m.V[x]])

ExecSetSound(m, x) == Ok([m EXCEPT !.ST = m.V[x]])

\* FX1E: the flag is set from the 16-bit sum, then I is advanced by the Vx read first
ExecAddIndex(m, x) ==
    LET i0 == m.V[x]
        m1 == IF U16(m.I + m.V[x]) > 4095 THEN SetV(m, 15, 1) ELSE SetV(m, 15, 0)
    IN  Ok([m1 EXCEPT !.I = U16(m1.I + i0)])

\* faulty variant: with no key pressed PC is left past the instruction
ExecWaitKeyNoRewind(m, x) ==
    IF \E k \in 0..15 : m.keys[k]
    THEN Ok(SetV(m, x, CHOOSE k \in 0..15 : m.keys[k] /\ \A j \in 0..(k - 1) : ~m.keys[j]))
    ELSE Ok(m)

\* FX0A: the lowest pressed key goes to Vx; with none pressed PC is rewound
ExecWaitKey(m, x) ==
    IF \E k \in 0..15 : m.keys[k]
    THEN Ok(SetV(m, x, CHOOSE k \in 0..15 : m.keys[k] /\ \A j \in 0..(k - 1) : ~m.keys[j]))
    ELSE Ok([m EXCEPT !.PC = U16(m.PC - 2)])

ExecFontAddr(m, x) == Ok([m EXCEPT !.I = U16(AndW(m.V[x], 15) * 5)])

\* FX33: three stores, each an index expression
ExecBcd(m, x) ==
    LET value == m.V[x]
        a0    == m.I
        a1    == U16(m.I + 1)
        a2    == U16(m.I + 2)
    IN  IF ~InRange(a0) THEN Panicked(m, "index out of range")
        ELSE LET m1 == MemSet(m, a0, value \div 100)
             IN  IF ~InRange(a1) THEN Panicked(m1, "index out of range")
                 ELSE LET m2 == MemSet(m1, a1, (value \div 10) % 10)
                      IN  IF ~InRange(a2) THEN Panicked(m2, "index out of range")
                          ELSE Ok(MemSet(m2, a2, value % 10))

\* FX55: for k := 0; k <= x; k++ { memory[I+k] = V[k] }
RECURSIVE StoreRegs(_, _, _)
StoreRegs(m, x, k) ==
    IF ~(k <= x) THEN Ok(m)
    ELSE LET a == U16(m.I + k)
         IN  IF ~InRange(a) THEN Panicked(m, "index out of range")
             ELSE StoreRegs(MemSet(m, a, m.V[k]), x, k + 1)

\* FX65: for k := 0; k <= x; k++ { V[k] = memory[I+k] }
RECURSIVE LoadRegs(_, _, _)
LoadRegs(m, x, k) ==
    IF ~(k <= x) THEN Ok(m)
    ELSE LET a == U16(m.I + k)
         IN  IF ~InRange(a) THEN Panicked(m, "index out of range")
             ELSE LoadRegs(SetV(m, k, Mem(m, a)), x, k + 1)

ExecMisc(m, op) ==
    LET x  == OpX(op)
        nn == AndW(op, 255)
    IN  CASE nn = 7   -> ExecGetDelay(m, x)
          [] nn = 21  -> ExecSetDelay(m, x)
          [] nn = 24  -> ExecSetSound(m, x)
          [] nn = 30  -> ExecAddIndex(m, x)
          [] nn = 10  -> ExecWaitKey(m, x)
          [] nn = 41  -> ExecFontAddr(m, x)
          [] nn = 51  -> ExecBcd(m, x)
          [] nn = 85  -> StoreRegs(m, x, 0)
          [] nn = 101 -> LoadRegs(m, x, 0)
          [] OTHER    -> Ok(m)

----------------------------------------------------------------------------
(* Execute and Cycle *)

Execute(m, op, randByte) ==
    LET g == OpGroup(op)
    IN  CASE g = 0     -> (CASE op = 224 -> ExecClear(m)
                             [] op = 238 -> ExecReturn(m)
                             [] OTHER    -> Ok(m))
          [] g = 4096  -> ExecJump(m, op)
          [] g = 8192  -> ExecCall(m, op)
          [] g = 12288 -> ExecSkipEqImm(m, op)
          [] g = 16384 -> ExecSkipNeImm(m, op)
          [] g = 20480 -> ExecSkipEqReg(m, op)
          [] g = 24576 -> ExecSetImm(m, op)
          [] g = 28672 -> ExecAddImm(m, op)
          [] g = 32768 -> ExecAlu(m, op)
          [] g = 36864 -> ExecSkipNeReg(m, op)
          [] g = 40960 -> ExecSetIndex(m, op)
          [] g = 45056 -> ExecJumpOffset(m, op)
          [] g = 49152 -> ExecRandom(m, op, randByte)
          [] g = 53248 -> ExecDraw(m, op)
          [] g = 61440 -> ExecMisc(m, op)
          [] OTHER     -> Ok(m)

\* Cycle: Fetch, then Execute of the fetched word unless Fetch panicked
CycleResult(m, randByte) ==
    LET f == Fetch(m)
    IN  IF f.panic # ""
        THEN [c |-> f.c, opcode |-> NoOpcode, panic |-> f.panic]
        ELSE [opcode |-> f.opcode] @@ Execute(f.c, f.opcode, randByte)

----------------------------------------------------------------------------
(* The timer goroutine: one tick is a test and a decrement of DT, then of ST *)

\* faulty variant: the test lets a timer at zero through
TimerTestAlways(v) == v >= 0

TimerTest(v) == v > 0

TimerDec(v) == Byte(v + 255)

----------------------------------------------------------------------------
(* ROMs *)

Op4(a, b, d, e) == a * 4096 + b * 256 + d * 16 + e

\* the file's bytes: each word big-endian
RomBytes(ops) ==
    [k \in 1..(2 * Len(ops)) |->
        IF k % 2 = 1 THEN ops[(k + 1) \div 2] \div 256 ELSE ops[k \div 2] % 256]

Vals == (0..MaxLow) \cup {127, 128} \cup ((255 - MaxLow)..255)

RegPairs == { <<0, 1>>, <<0, 0>>, <<0, 15>>, <<15, 0>>, <<15, 15>> }

\* one word of every case of Execute's switch, on the operands X and Y
OneOps(X, Y) ==
    { 224, 238, 291, Op4(1, 3, 0, 0), Op4(2, 3, 0, 0), Op4(11, 15, 15, 15), Op4(11, 3, 0, 0),
      Op4(3, X, 0, 0), Op4(3, X, 15, 15), Op4(4, X, 0, 0), Op4(4, X, 15, 15),
      Op4(5, X, Y, 0), Op4(5, X, Y, 1), Op4(9, X, Y, 0), Op4(9, X, Y, 1),
      Op4(7, X, 0, 1), Op4(7, X, 15, 15),
      Op4(10, 1, 2, 3), Op4(10, 15, 15, 15), Op4(12, X, 0, 15),
      Op4(13, X, Y, 1), Op4(13, X, Y, 5), Op4(14, X, 9, 14) }
    \cup { Op4(8, X, Y, n) : n \in 0..15 }
    \cup { Op4(15, X, 0, 0) + nn : nn \in {7, 21, 24, 30, 10, 41, 51, 85, 101, 255} }

\* two register loads, then one instruction on those registers
AluPrograms ==
    UNION { { <<Op4(6, p[1], 0, 0) + a, Op4(6, p[2], 0, 0) + b, w>> :
                a \in Vals, b \in Vals, w \in OneOps(p[1], p[2]) } : p \in RegPairs }

FlowAddrs == { ProgStart + 2 * k : k \in 1..(MaxFlowLen - 1) }

FlowOps == { 8192 + a : a \in FlowAddrs } \cup { 238, Op4(1, 15, 15, 14), Op4(1, 15, 15, 15) }

RECURSIVE SeqsOf(_, _)
SeqsOf(S, n) ==
    IF n = 0 THEN { <<>> }
    ELSE { Append(q, e) : q \in SeqsOf(S, n - 1), e \in S }

\* calls into the program itself, returns, and jumps to the end of memory
FlowPrograms == SeqsOf(FlowOps, MaxFlowLen)

DrawCoords == { 0, 30, 62 }

DrawOps ==
    { Op4(13, 0, 1, 0), Op4(13, 0, 1, 5), Op4(13, 0, 1, 15), Op4(13, 1, 0, 5),
      Op4(13, 15, 0, 5), Op4(13, 0, 15, 5), Op4(7, 0, 0, 2) }

\* V0 is loaded, then sprites of the font (I = 0) are drawn
DrawPrograms ==
    { <<Op4(6, 0, 0, 0) + a>> \o q : a \in DrawCoords, q \in SeqsOf(DrawOps, MaxDraws) }

\* I set near the end of memory, then one instruction that goes through I
HighIndexPrograms ==
    { <<Op4(10, 0, 0, 0) + nnn, w>> :
        nnn \in ((4095 - MaxLow)..4095) \cup {4093},
        w \in { Op4(13, 0, 0, 1), Op4(13, 0, 0, 2), Op4(15, 0, 3, 3),
                Op4(15, 0, 5, 5), Op4(15, 1, 5, 5), Op4(15, 0, 6, 5), Op4(15, 1, 6, 5) } }

CpuPrograms == AluPrograms \cup FlowPrograms \cup DrawPrograms \cup HighIndexPrograms

TimerOps ==
    { Op4(6, 0, 0, 0) + v : v \in (0..MaxLow) \cup {255} }
    \cup { Op4(15, 0, 0, 7), Op4(15, 0, 1, 5), Op4(15, 0, 1, 8) }

TimerPrograms == SeqsOf(TimerOps, 2)

TimerVals == (0..(MaxLow + 1)) \cup {MainST, MainDT, 255}

----------------------------------------------------------------------------
(* main up to its loop: Init, StartTimers, the two timer assignments, LoadROM *)

BootBytes(data, dt, st) ==
    LoadROM([Chip8Init(ZeroChip8) EXCEPT !.DT = dt, !.ST = st], data)

Boot(ops, dt, st) == BootBytes(RomBytes(ops), dt, st)

InitBytes(datas, dts, sts) ==
    \E data \in datas, dt \in dts, st \in sts :
        LET b == BootBytes(data, dt, st)
        IN  /\ c = b.c
            /\ rom = data
            /\ beep = FALSE
            /\ err = b.err
            /\ panic = ""
            /\ i = 0
            /\ tpc = "wait"
            /\ tmp = 0
            /\ ticks = 0
            /\ opcode = NoOpcode
            /\ prev = b.c
            /\ opcode2 = NoOpcode
            /\ prev2 = b.c
            /\ calls = <<>>
            /\ ret = NoOpcode
            /\ t0 = [DT |-> dt, ST |-> st]

InitWith(roms, dts, sts) == InitBytes({ RomBytes(ops) : ops \in roms }, dts, sts)

Running == panic = "" /\ err = ""

\* the bytes time.Now().Nanosecond() % 256 can give, when the next word is CXNN
RandBytes(m) ==
    IF ~PCOutOfBounds(m.PC) /\ OpGroup(Fetch(m).opcode) = 49152 THEN Vals ELSE {0}

\* one iteration of main's loop
Cycle(limit) ==
    /\ Running
    /\ i < limit
    /\ \E randByte \in RandBytes(c) :
      \E r \in { CycleResult(c, randByte) } :
        LET done == r.panic = "" /\ r.opcode # NoOpcode
        IN  /\ c' = r.c
            /\ panic' = r.panic
            /\ opcode' = r.opcode
            /\ i' = IF r.panic = "" THEN i + 1 ELSE i
            /\ calls' = IF done /\ OpGroup(r.opcode) = 8192 THEN Append(calls, Fetch(c).c.PC)
                        ELSE IF done /\ r.opcode = 238 THEN SubSeq(calls, 1, Len(calls) - 1)
                        ELSE calls
            /\ ret' = IF done /\ r.opcode = 238 /\ calls # <<>> THEN calls[Len(calls)] ELSE ret
    /\ prev' = c
    /\ opcode2' = opcode
    /\ prev2' = prev
    /\ UNCHANGED <<err, tpc, tmp, ticks, t0, rom, beep>>

history == <<opcode, prev, opcode2, prev2, calls, ret, t0, rom>>

TickArrive ==
    /\ Running
    /\ tpc = "wait"
    /\ ticks < MaxTicks
    /\ tpc' = "testDT"
    /\ ticks' = ticks + 1
    /\ UNCHANGED <<c, panic, err, i, tmp, history, beep>>

TickTestDT ==
    /\ Running
    /\ tpc = "testDT"
    /\ tpc' = IF TimerTest(c.DT) THEN "loadDT" ELSE "testST"
    /\ UNCHANGED <<c, panic, err, i, tmp, ticks, history, beep>>

TickLoadDT ==
    /\ Running
    /\ tpc = "loadDT"
    /\ tmp' = c.DT
    /\ tpc' = "storeDT"
    /\ UNCHANGED <<c, panic, err, i, ticks, history, beep>>

TickStoreDT ==
    /\ Running
    /\ tpc = "storeDT"
    /\ c' = [c EXCEPT !.DT = TimerDec(tmp)]
    /\ tpc' = "testST"
    /\ UNCHANGED <<panic, err, i, tmp, ticks, history, beep>>

TickTestST ==
    /\ Running
    /\ tpc = "testST"
    /\ tpc' = IF TimerTest(c.ST) THEN "loadST" ELSE "wait"
    /\ UNCHANGED <<c, panic, err, i, tmp, ticks, history, beep>>

TickLoadST ==
    /\ Running
    /\ tpc = "loadST"
    /\ tmp' = c.ST
    /\ tpc' = "storeST"
    /\ UNCHANGED <<c, panic, err, i, ticks, history, beep>>

TickStoreST ==
    /\ Running
    /\ tpc = "storeST"
    /\ c' = [c EXCEPT !.ST = TimerDec(tmp)]
    /\ tpc' = "wait"
    /\ UNCHANGED <<panic, err, i, tmp, ticks, history, beep>>

Tick ==
    \/ TickArrive
    \/ TickTestDT
    \/ TickLoadDT
    \/ TickStoreDT
    \/ TickTestST
    \/ TickLoadST
    \/ TickStoreST

----------------------------------------------------------------------------
(* Specifications *)

\* the whole program: the interpreter loop and the timer goroutine, on ROMs
\* that read and write the timers
Init == InitWith(TimerPrograms, {MainDT}, {MainST})

Next == Cycle(MaxCycles) \/ Tick

Spec == Init /\ [][Next]_vars

\* the timer goroutine alone (main.go: main never executes an instruction)
InitTimer == InitWith({ <<>> }, TimerVals, TimerVals)

NextTimer == Tick

SpecTimer == InitTimer /\ [][NextTimer]_vars

\* the interpreter loop between two ticks, on ROMs of every instruction
InitCpu == InitWith(CpuPrograms, {MainDT}, {MainST})

NextCpu == Cycle(MaxCycles)

SpecCpu == InitCpu /\ [][NextCpu]_vars

\* the interpreter loop on ROMs of calls and returns, run long enough to
\* fill the stack
MaxDeepCycles == 17

StackOps ==
    { Op4(2, 2, 0, 0), Op4(2, 2, 0, 2), Op4(2, 2, 0, 4), 238, Op4(1, 2, 0, 0) }

StackPrograms == SeqsOf(StackOps, 3)

InitStack == InitWith(StackPrograms, {MainDT}, {MainST})

NextStack == Cycle(MaxDeepCycles)

SpecStack == InitStack /\ [][NextStack]_vars

\* every word of the group 0x5000, after a 6XNN that makes VX differ from
\* the other registers or leaves all of them equal
SkipPrograms ==
    { <<Op4(6, x, 0, 0) + a, Op4(5, x, y, n)>> :
        x \in 0..15, y \in 0..15, n \in 0..15, a \in 0..1 }

InitSkip == InitWith(SkipPrograms, {MainDT}, {MainST})

NextSkip == Cycle(MaxCycles)

SpecSkip == InitSkip /\ [][NextSkip]_vars

\* a loop that adds VX to I again and again, from I = 0xFFF on, run until
\* the 16-bit sum wraps (main runs 1000 cycles)
MaxIndexCycles == 484

IndexLoops ==
    { <<Op4(10, 15, 15, 15), Op4(6, x, 0, 0) + v, Op4(15, x, 1, 14), Op4(1, 2, 0, 4)>> :
        x \in {0, 15}, v \in (255 - MaxLow)..255 }

InitIndex == InitWith(IndexLoops, {MainDT}, {MainST})

NextIndex == Cycle(MaxIndexCycles)

SpecIndex == InitIndex /\ [][NextIndex]_vars

\* updateKeys on the byte Scanf read (0 when it read nothing): '0'..'9' and
\* 'A'..'F' press the key of that digit, and nothing releases a key
KeyInputs == { 0, 47, 48, 48 + MaxLow, 57, 58, 64, 65, 70, 71, 97 }

KeyOf(input) ==
    IF input >= 48 /\ input <= 57 THEN input - 48
    ELSE IF input >= 65 /\ input <= 70 THEN input - 65 + 10
    ELSE -1

updateKeys ==
    /\ Running
    /\ \E input \in KeyInputs :
          c' = IF KeyOf(input) >= 0 THEN [c EXCEPT !.keys[KeyOf(input)] = TRUE] ELSE c
    /\ UNCHANGED <<panic, err, i, tpc, tmp, ticks, history, beep>>

\* ROMs that wait for a key and then go on
KeyPrograms ==
    { <<Op4(15, x, 0, 10), Op4(6, 0, 0, 7)>> : x \in (0..MaxLow) \cup {15} }
    \cup { <<Op4(6, 1, 0, 9), Op4(15, 1, 0, 10)>> }

\* the loop of main with its key poll: updateKeys and Cycle
InitKeys == InitWith(KeyPrograms, {MainDT}, {MainST})

NextKeys == updateKeys \/ Cycle(MaxCycles)

SpecKeys == InitKeys /\ [][NextKeys]_vars

\* the two speaker functions of sound.go; no function of the program calls
\* either of them (the tick has only a comment where the tone would stop,
\* FX18 only stores the timer), so no action below contains them
PlayBeep == beep' = TRUE

StopBeep == beep' = FALSE

\* interpreter and timers 30 ticks after main set them: the sound timer has
\* run out and the delay timer is half way
InitSound == InitWith(TimerPrograms, {MainDT - MainST}, {0})

NextSound == Cycle(MaxCycles) \/ Tick

SpecSound == InitSound /\ [][NextSound]_vars

\* ROM files of a few bytes, and of the sizes around what the program area
\* holds; no byte is zero and neighbouring bytes differ
MaxSeed == 5

RomLens ==
    (0..(MaxLow + 2))
    \cup { MemSize - ProgStart - 1, MemSize - ProgStart, MemSize - ProgStart + 1 }

RomFile(len, seed) == [k \in 1..len |-> ((k + seed) % 255) + 1]

RomFiles == { RomFile(len, seed) : len \in RomLens, seed \in 0..MaxSeed }

InitLoad == InitBytes(RomFiles, {MainDT}, {MainST})

NextLoad == Cycle(MaxCycles)

SpecLoad == InitLoad /\ [][NextLoad]_vars

----------------------------------------------------------------------------
(* The instruction encoding as documented, for stating the claims *)

Hi(op) == op \div 4096

NibX(op) == (op \div 256) % 16

NibY(op) == (op \div 16) % 16

Lo(op) == op % 16

LoByte(op) == op % 256

Max(a, b) == IF a > b THEN a ELSE b

\* the last Cycle fetched a word and Execute ran on it
Fetched == opcode # NoOpcode

\* the last Cycle fetched a word and Execute returned
Executed == Fetched /\ panic = ""

IsOp(h, l) == Fetched /\ Hi(opcode) = h /\ Lo(opcode) = l

\* the documented control transfers, on the state m before the cycle
ControlTransfer(op, m) ==
    \/ op = 238
    \/ Hi(op) \in {1, 2, 11}
    \/ Hi(op) = 3 /\ m.V[NibX(op)] = LoByte(op)
    \/ Hi(op) = 4 /\ m.V[NibX(op)] # LoByte(op)
    \/ Hi(op) = 5 /\ Lo(op) = 0 /\ m.V[NibX(op)] = m.V[NibY(op)]
    \/ Hi(op) = 9 /\ Lo(op) = 0 /\ m.V[NibX(op)] # m.V[NibY(op)]
    \/ Hi(op) = 15 /\ LoByte(op) = 10 /\ \A k \in 0..15 : ~m.keys[k]

----------------------------------------------------------------------------
(* C1: every write of the timer goroutine to DT or ST is an atomic         *)
(* decrement of the value the timer holds at that moment: it lowers a      *)
(* nonzero timer by one, so it neither wraps a timer an instruction has    *)
(* set to 0 nor overwrites a value an instruction wrote since its read.    *)
C1_TimerAccessAtomic ==
    [][ tpc' # tpc =>
          /\ c'.DT = c.DT \/ (c.DT > 0 /\ c'.DT = c.DT - 1)
          /\ c'.ST = c.ST \/ (c.ST > 0 /\ c'.ST = c.ST - 1) ]_vars

(* C2: with no instruction writing the timers, after k ticks DT is         *)
(* max(n - k, 0) and ST likewise; a timer never rises and never wraps.     *)
C2_TimerCountdown ==
    /\ tpc = "wait" => /\ c.DT = Max(t0.DT - ticks, 0)
                       /\ c.ST = Max(t0.ST - ticks, 0)
    /\ c.DT <= t0.DT /\ c.DT >= Max(t0.DT - ticks, 0)
    /\ c.ST <= t0.ST /\ c.ST >= Max(t0.ST - ticks, 0)

C2_Witness ==
    /\ tpc = "wait" /\ ticks = 3
    /\ t0.DT = 2 /\ c.DT = 0
    /\ t0.ST = MainDT /\ c.ST = MainDT - 3

(* C3: a cycle on a word that is not a documented control transfer leaves  *)
(* PC exactly 2 above its value before the cycle.                          *)
C3_PCAdvancesByTwo ==
    Fetched /\ ~ControlTransfer(opcode, prev) => c.PC = prev.PC + 2

\* the same, leaving out the words 5XYn and 9XYn with n # 0
C3_ExceptUndocumentedSkips ==
    Fetched /\ ~ControlTransfer(opcode, prev) /\ ~(Hi(opcode) \in {5, 9} /\ Lo(opcode) # 0)
        => c.PC = prev.PC + 2

(* C4: a call pushes the PC that follows it, increments SP and jumps to    *)
(* NNN; a return restores the PC pushed by its matching call and SP; the   *)
(* stack holds exactly the PCs of the calls not yet returned from, in      *)
(* order, so SP is back at its value once every call has returned.         *)
C4_CallReturnPairing ==
    /\ Len(calls) = c.SP
    /\ \A k \in 1..Len(calls) : c.stack[k - 1] = calls[k]
    /\ Executed /\ Hi(opcode) = 2 =>
          /\ c.SP = prev.SP + 1
          /\ c.stack[prev.SP] = prev.PC + 2
          /\ c.PC = opcode % 4096
    /\ Executed /\ opcode = 238 =>
          /\ c.SP = prev.SP - 1
          /\ c.PC = ret

C4_Witness ==
    /\ Executed /\ opcode = 238 /\ opcode2 = 238
    /\ prev2.SP = 2 /\ c.SP = 0
    /\ prev.PC = ProgStart + 6 /\ c.PC = ProgStart + 2

(* C5: after 8XY5, VF is 1 iff Vx > Vy held before the instruction; after  *)
(* 8XY7, VF is 1 iff Vy > Vx held before it.                               *)
C5_SubFlagIsNoBorrow ==
    /\ IsOp(8, 5) =>
          c.V[15] = IF prev.V[NibX(opcode)] > prev.V[NibY(opcode)] THEN 1 ELSE 0
    /\ IsOp(8, 7) =>
          c.V[15] = IF prev.V[NibY(opcode)] > prev.V[NibX(opcode)] THEN 1 ELSE 0

(* C6: after 8XY4 on a = V[X], b = V[Y], VF is 1 iff a + b > 255, and      *)
(* V[X] is (a + b) mod 256 unless X is F.                                  *)
C6_AddCarry ==
    IsOp(8, 4) =>
        LET a == prev.V[NibX(opcode)]
            b == prev.V[NibY(opcode)]
        IN  /\ c.V[15] = IF a + b > 255 THEN 1 ELSE 0
            /\ NibX(opcode) # 15 => c.V[NibX(opcode)] = (a + b) % 256

C6_Witness ==
    /\ IsOp(8, 4) /\ NibX(opcode) = 15 /\ NibY(opcode) = 0
    /\ prev.V[15] = 128 /\ prev.V[0] = 128
    /\ c.V[15] = 1

(* C7: after DXYN, VF is 1 iff some pixel that was set before the draw is  *)
(* unset after it, and 0 otherwise.                                        *)
C7_DrawCollisionFlag ==
    Executed /\ Hi(opcode) = 13 =>
        /\ c.V[15] \in {0, 1}
        /\ c.V[15] = 1 <=> prev.display \ c.display # {}

\* a collision on one bit of a row followed by a bit of that row that sets a pixel
C7_Witness ==
    /\ Executed /\ Hi(opcode) = 13 /\ c.V[15] = 1
    /\ \E p \in prev.display \ c.display : <<(p[1] + 1) % Width, p[2]>> \in c.display \ prev.display

(* C8: two successive executions of the same DXYN with the same I, Vx, Vy  *)
(* and sprite bytes leave the display as it was before the first.          *)
C8_DrawTwiceRestores ==
    ( /\ Executed /\ Hi(opcode) = 13 /\ opcode2 = opcode
      /\ prev.I = prev2.I /\ prev.memory = prev2.memory
      /\ prev.V[NibX(opcode)] = prev2.V[NibX(opcode)]
      /\ prev.V[NibY(opcode)] = prev2.V[NibY(opcode)] )
    => c.display = prev2.display

\* on a display that held pixels, with a sprite that wraps around the right edge
C8_Witness ==
    /\ Executed /\ Hi(opcode) = 13 /\ opcode2 = opcode /\ Lo(opcode) = 5
    /\ prev.I = prev2.I
    /\ prev.V[NibX(opcode)] = 62 /\ prev2.V[NibX(opcode)] = 62
    /\ prev.V[NibY(opcode)] = prev2.V[NibY(opcode)]
    /\ prev2.display # {} /\ prev.display # prev2.display
    /\ c.display = prev2.display
    /\ <<62, 0>> \in c.display /\ <<1, 0>> \in c.display

(* C9: in every reachable state PC and PC+1 are addresses of the memory.   *)
C9_PCWithinMemory == c.PC >= 0 /\ c.PC + 1 < MemSize

(* C9, amended: PC stays in 0..0xFFF+0xFF; a Fetch reads memory only with  *)
(* PC and PC+1 inside it, and with PC or PC+1 outside it stops the machine *)
(* with the panic "PC out of bounds", the state left as it was.            *)
C9_PCBoundedFetchGuarded ==
    /\ c.PC \in 0..(4095 + 255)
    /\ Fetched => prev.PC + 1 < MemSize
    /\ ~Fetched /\ panic # "" =>
          /\ panic = "PC out of bounds"
          /\ prev.PC + 1 >= MemSize
          /\ c = prev

C9_Witness ==
    /\ panic = "PC out of bounds" /\ ~Fetched
    /\ c.PC = 4095 + 255
    /\ opcode2 = Op4(11, 15, 15, 15)

(* C10: a Fetch with PC or PC+1 outside the memory ends in the reportable  *)
(* error ProgramCounterOutOfBounds, not in an abort, with the state        *)
(* unchanged; any other Fetch returns memory[PC]*256 + memory[PC+1].       *)
C10_FetchReportsError ==
    /\ prev.PC + 1 >= MemSize =>
          /\ panic = ""
          /\ err = "ProgramCounterOutOfBounds"
          /\ c = prev
    /\ Fetched => opcode = Mem(prev, prev.PC) * 256 + Mem(prev, prev.PC + 1)

(* C11: in every state SP is in 0..15 and every stack entry a call writes  *)
(* or a return reads is one of the 16; a 00EE met with SP = 0 is fatal     *)
(* with "stack underflow" and leaves SP, the stack and PC as Fetch left    *)
(* them, so SP never wraps to 255.                                         *)
C11_StackPointerInRange ==
    /\ c.SP \in 0..(StackSize - 1)
    /\ Executed /\ Hi(opcode) = 2 => prev.SP \in 0..(StackSize - 1)
    /\ Executed /\ opcode = 238 => prev.SP - 1 \in 0..(StackSize - 1)
    /\ Fetched /\ opcode = 238 /\ prev.SP = 0 =>
          /\ panic = "stack underflow"
          /\ c = Fetch(prev).c
          /\ c.SP = 0 /\ c.stack = prev.stack /\ c.PC = prev.PC + 2

C11_Witness ==
    /\ panic = "stack underflow" /\ opcode = 238 /\ prev.SP = 0
    /\ opcode2 = 238 /\ prev2.SP = 1
    /\ c.SP = 0 /\ c.stack[0] # 0

(* C12: a 2NNN met with fewer than 16 return addresses on the stack        *)
(* succeeds, so calls nest 16 deep; only the call that needs a 17th entry  *)
(* fails with "stack overflow", and it leaves the stack as it was.         *)
C12_SixteenNestedCalls ==
    /\ Fetched /\ Hi(opcode) = 2 /\ prev.SP < StackSize =>
          /\ panic = ""
          /\ c.SP = prev.SP + 1
          /\ c.stack[prev.SP] = prev.PC + 2
    /\ panic = "stack overflow" =>
          /\ prev.SP = StackSize
          /\ c.stack = prev.stack

\* the words the instruction set does not define
Unknown(op) ==
    \/ Hi(op) = 0 /\ op \notin {224, 238}
    \/ Hi(op) \in {5, 9} /\ Lo(op) # 0
    \/ Hi(op) = 8 /\ Lo(op) \in (8..13) \cup {15}
    \/ Hi(op) = 14
    \/ Hi(op) = 15 /\ LoByte(op) \notin {7, 10, 21, 24, 30, 41, 51, 85, 101}

(* C13: an unknown opcode (0NNN other than 00E0/00EE, 5XYn and 9XYn with   *)
(* n # 0, 8XYn with n in 8..D or F, EXnn, unlisted FXnn) changes nothing   *)
(* of the machine and does not fail: its only effect is Fetch's PC + 2.    *)
C13_UnknownOpcodeNoEffect ==
    Fetched /\ Unknown(opcode) =>
        /\ panic = ""
        /\ c = [prev EXCEPT !.PC = prev.PC + 2]

\* the same, leaving out the low-nibble variants of the two register skips
C13_ExceptRegisterSkips ==
    Fetched /\ Unknown(opcode) /\ Hi(opcode) \notin {5, 9} =>
        /\ panic = ""
        /\ c = [prev EXCEPT !.PC = prev.PC + 2]

\* the number of bytes the program area holds
RomCapacity == MemSize - ProgStart

\* memory as Init leaves it on a fresh machine
FreshByte(a) == IF a < Len(fontset) THEN fontset[a + 1] ELSE 0

(* C14: on a fresh machine, Init and then the load of a ROM of L <= 3584   *)
(* bytes succeed and leave the font in memory[0..80), the ROM bytes in     *)
(* memory[0x200..0x200+L), zero in every other byte, and PC = 0x200; a ROM *)
(* of more than 3584 bytes makes the load fail and leaves memory as Init   *)
(* left it.                                                                *)
C14_LoadLayout ==
    /\ err = "" <=> Len(rom) <= RomCapacity
    /\ i = 0 /\ err = "" =>
          /\ c.PC = ProgStart
          /\ \A a \in 0..(MemSize - 1) :
                Mem(c, a) = IF a >= ProgStart /\ a < ProgStart + Len(rom)
                            THEN rom[a - ProgStart + 1]
                            ELSE FreshByte(a)
    /\ err # "" =>
          /\ err = "ROM too large"
          /\ \A a \in 0..(MemSize - 1) : Mem(c, a) = FreshByte(a)

C14_Witness ==
    /\ i = 0 /\ err = ""
    /\ Len(rom) = RomCapacity
    /\ Mem(c, MemSize - 1) = rom[RomCapacity] /\ rom[RomCapacity] # 0
    /\ Mem(c, ProgStart) = rom[1] /\ Mem(c, ProgStart - 1) = 0

(* C15: the tone follows the sound timer: when FX18 takes ST from zero to  *)
(* a nonzero value the tone starts, when a tick takes ST to zero it stops, *)
(* so between ticks the tone is sounding exactly while ST > 0.             *)
C15_ToneFollowsSoundTimer ==
    /\ Executed /\ Hi(opcode) = 15 /\ LoByte(opcode) = 24
          /\ prev.ST = 0 /\ prev.V[NibX(opcode)] > 0 => beep
    /\ tpc = "wait" => (beep <=> c.ST > 0)

\* the last Cycle fetched an FX0A
IsWaitKey(op) == op # NoOpcode /\ Hi(op) = 15 /\ LoByte(op) = 10

NoKey(m) == \A k \in 0..15 : ~m.keys[k]

LowestKey(m, k) == m.keys[k] /\ \A j \in 0..15 : j < k => ~m.keys[j]

\* everything of the machine but PC, the timers and the keys
SameButPC(m, n) ==
    /\ m.V = n.V /\ m.I = n.I /\ m.memory = n.memory
    /\ m.stack = n.stack /\ m.SP = n.SP /\ m.display = n.display

(* C16: with no key pressed, a Cycle that executes FX0A leaves PC at that  *)
(* FX0A and changes no register, I, memory, stack or display, and the next *)
(* Cycle fetches the same FX0A again; with a key pressed, the Cycle stores *)
(* the lowest pressed key index in Vx and leaves PC two past the FX0A. So  *)
(* the machine never gets past an FX0A without a key pressed.              *)
C16_WaitKeySpins ==
    /\ IsWaitKey(opcode) /\ NoKey(prev) =>
          /\ panic = ""
          /\ c.PC = prev.PC
          /\ SameButPC(c, prev)
    /\ IsWaitKey(opcode2) /\ NoKey(prev2) /\ Fetched =>
          /\ opcode = opcode2
          /\ prev.PC = prev2.PC
    /\ IsWaitKey(opcode) /\ ~NoKey(prev) =>
          /\ panic = ""
          /\ c.PC = prev.PC + 2
          /\ LowestKey(prev, c.V[NibX(opcode)])
          /\ \A k \in 0..15 : k # NibX(opcode) => c.V[k] = prev.V[k]
          /\ c.I = prev.I /\ c.memory = prev.memory /\ c.stack = prev.stack
          /\ c.SP = prev.SP /\ c.display = prev.display

C16_Witness ==
    /\ IsWaitKey(opcode) /\ IsWaitKey(opcode2) /\ panic = ""
    /\ NoKey(prev2) /\ prev.PC = prev2.PC
    /\ prev.keys[9] /\ prev.keys[15] /\ ~prev.keys[0]
    /\ c.V[NibX(opcode)] = 9 /\ c.PC = prev.PC + 2

C18_ShiftFlagIsBitShiftedOut ==
    /\ Executed /\ IsOp(8, 6) => c.V[15] = prev.V[NibX(opcode)] % 2
    /\ Executed /\ IsOp(8, 14) => c.V[15] = prev.V[NibX(opcode)] \div 128

\* the same for the registers other than VF
C18_ExceptFlagRegister ==
    /\ Executed /\ IsOp(8, 6) /\ NibX(opcode) # 15 =>
          /\ c.V[15] = prev.V[NibX(opcode)] % 2
          /\ c.V[NibX(opcode)] = prev.V[NibX(opcode)] \div 2
    /\ Executed /\ IsOp(8, 14) /\ NibX(opcode) # 15 =>
          /\ c.V[15] = prev.V[NibX(opcode)] \div 128
          /\ c.V[NibX(opcode)] = (prev.V[NibX(opcode)] * 2) % 256

\* the last Cycle fetched an FX1E
IsAddIndex(op) == op # NoOpcode /\ Hi(op) = 15 /\ LoByte(op) = 30

(* C19: after FX1E, I is the old I plus Vx and VF is 1 exactly when that   *)
(* sum, taken as a number, exceeds 0xFFF; for every 16-bit I that ANNN,    *)
(* FX1E and FX29 can produce, also near 0xFFFF, and for every X.           *)
C19_AddIndexFlag ==
    Executed /\ IsAddIndex(opcode) =>
        /\ c.I = prev.I + prev.V[NibX(opcode)]
        /\ c.V[15] = IF prev.I + prev.V[NibX(opcode)] > 4095 THEN 1 ELSE 0

\* the same while the sum fits in 16 bits
C19_ExceptWrap ==
    Executed /\ IsAddIndex(opcode) /\ prev.I + prev.V[NibX(opcode)] < 65536 =>
        /\ c.I = prev.I + prev.V[NibX(opcode)]
        /\ c.V[15] = IF prev.I + prev.V[NibX(opcode)] > 4095 THEN 1 ELSE 0

\* the memory indices an instruction goes through, on the state before it
MemIndices(op, m) ==
    IF Hi(op) = 13 THEN { m.I + row : row \in 0..(Lo(op) - 1) }
    ELSE IF Hi(op) = 15 /\ LoByte(op) = 51 THEN { m.I, m.I + 1, m.I + 2 }
    ELSE IF Hi(op) = 15 /\ LoByte(op) \in {85, 101} THEN { m.I + k : k \in 0..NibX(op) }
    ELSE {}

(* C20: every memory access of Execute through I (the sprite rows of DXYN, *)
(* the three bytes of FX33, the X + 1 bytes of FX55 and FX65) uses an      *)
(* index in 0..4095, in every reachable state.                             *)
C20_IndexedAccessInMemory ==
    /\ Fetched => MemIndices(opcode, prev) \subseteq 0..(MemSize - 1)
    /\ panic # "index out of range"

====
